---- MODULE Spec2Model ----
(***************************************************************************)
(* Model of the PostgreSQL adapter of toutago-datamapper-postgres          *)
(* (adapter.go): the named-parameter translator (extractArgs,              *)
(* replaceNamedParams) and the adapter's operations over a database pool.  *)
(*                                                                         *)
(* A Go string is a sequence of symbols: one-character strings, and for    *)
(* the words of the generated SQL one symbol per word; fmt.Sprintf and     *)
(* strings.Join are modelled by the symbols they produce.                  *)
(***************************************************************************)
EXTENDS Integers, Sequences, FiniteSets, TLC

VARIABLES
  tq,       \* translator: the template
  tparams,  \* translator: the parameter map
  tcalls,   \* translator: which of the two functions have been called
  targs,    \* translator: what extractArgs returned
  tstmt,    \* translator: what replaceNamedParams returned
  procs,    \* translator: the local variables of each concurrent caller
  a,        \* the PostgreSQLAdapter struct
  pools,    \* every *sql.DB the adapter opened, by handle 1, 2, ...
  call      \* the adapter call in progress, or the last one finished

tvars == <<tq, tparams, tcalls, targs, tstmt, procs>>

avars == <<a, pools, call>>

vars == <<tq, tparams, tcalls, targs, tstmt, procs, a, pools, call>>

----------------------------------------------------------------------------
(* Bounds of the model *)

\* longest template enumerated character by character
MaxLen == 5

\* characters a template is made of: the two braces and two ordinary ones
Alphabet == {"{", "}", "a", "b"}

\* keys a parameter map may hold
ParamKeys == {<<"a">>, <<"b">>}

\* the nil interface value
Null == "null"

\* values of a parameter map or of a row object
Values == {"v1", "v2", Null}

\* templates of the tests and of the specification, with one-letter names
ExampleTemplates ==
  { <<"{","a","}","{","b","}","{","a","}">>,
    <<"a"," ","=","{","a","}"," ","b","=","{","b","}">> }

Templates == UNION {[1..n -> Alphabet] : n \in 0..MaxLen} \cup ExampleTemplates

ParamMaps == UNION {[K -> Values] : K \in SUBSET ParamKeys}

----------------------------------------------------------------------------
(* Errors and results *)

NoError == [kind |-> "none", name |-> <<>>]

\* fmt.Errorf("postgresql: missing parameter: %s", name)
MissingParameter(name) == [kind |-> "missing parameter", name |-> name]

----------------------------------------------------------------------------
(* fmt.Sprintf("$%d", k) *)

DigitChars == <<"0", "1", "2", "3", "4", "5", "6", "7", "8", "9">>

RECURSIVE Decimal(_)
Decimal(k) ==
  IF k < 10 THEN <<DigitChars[k + 1]>>
  ELSE Append(Decimal(k \div 10), DigitChars[(k % 10) + 1])

PositionalMarker(k) == <<"$">> \o Decimal(k)

----------------------------------------------------------------------------
(* extractArgs *)

\* the scanning loop of extractArgs: the names of the placeholders found
RECURSIVE ScanParamNames(_, _, _, _, _)
ScanParamNames(query, i, inBrace, paramName, paramNames) ==
  IF i > Len(query) THEN paramNames
  ELSE LET ch == query[i] IN
    IF ch = "{"
      THEN ScanParamNames(query, i + 1, TRUE, <<>>, paramNames)
    ELSE IF ch = "}" /\ inBrace
      THEN ScanParamNames(query, i + 1, FALSE, paramName,
                          Append(paramNames, paramName))
    ELSE IF inBrace
      THEN ScanParamNames(query, i + 1, inBrace, Append(paramName, ch),
                          paramNames)
    ELSE ScanParamNames(query, i + 1, inBrace, paramName, paramNames)

\* the lookup loop of extractArgs: nil and an error at the first absent name
RECURSIVE LookupArgs(_, _, _, _)
LookupArgs(paramNames, params, i, args) ==
  IF i > Len(paramNames)
    THEN [args |-> args, isNil |-> FALSE, err |-> NoError]
  ELSE IF paramNames[i] \notin DOMAIN params
    THEN [args |-> <<>>, isNil |-> TRUE,
          err |-> MissingParameter(paramNames[i])]
  ELSE LookupArgs(paramNames, params, i + 1,
                  Append(args, params[paramNames[i]]))

\* mutant: a repeated name is looked up once only
RECURSIVE DistinctNames(_, _, _)
DistinctNames(names, i, acc) ==
  IF i > Len(names) THEN acc
  ELSE IF \E k \in 1..Len(acc) : acc[k] = names[i]
    THEN DistinctNames(names, i + 1, acc)
  ELSE DistinctNames(names, i + 1, Append(acc, names[i]))

extractArgsDedup(query, params) ==
  LookupArgs(DistinctNames(ScanParamNames(query, 1, FALSE, <<>>, <<>>),
                           1, <<>>),
             params, 1, <<>>)

\* mutant: the lookup goes on after an absent name and reports the last one,
\* handing back the values it found
RECURSIVE LookupArgsLenient(_, _, _, _, _)
LookupArgsLenient(paramNames, params, i, args, err) ==
  IF i > Len(paramNames)
    THEN [args |-> args, isNil |-> FALSE, err |-> err]
  ELSE IF paramNames[i] \notin DOMAIN params
    THEN LookupArgsLenient(paramNames, params, i + 1, args,
                           MissingParameter(paramNames[i]))
  ELSE LookupArgsLenient(paramNames, params, i + 1,
                         Append(args, params[paramNames[i]]), err)

extractArgsLenient(query, params) ==
  LookupArgsLenient(ScanParamNames(query, 1, FALSE, <<>>, <<>>),
                    params, 1, <<>>, NoError)

\* mutant: the end of the query closes a brace that is still open
RECURSIVE ScanParamNamesClosingAtEnd(_, _, _, _, _)
ScanParamNamesClosingAtEnd(query, i, inBrace, paramName, paramNames) ==
  IF i > Len(query)
    THEN IF inBrace THEN Append(paramNames, paramName) ELSE paramNames
  ELSE LET ch == query[i] IN
    IF ch = "{"
      THEN ScanParamNamesClosingAtEnd(query, i + 1, TRUE, <<>>, paramNames)
    ELSE IF ch = "}" /\ inBrace
      THEN ScanParamNamesClosingAtEnd(query, i + 1, FALSE, paramName,
                                      Append(paramNames, paramName))
    ELSE IF inBrace
      THEN ScanParamNamesClosingAtEnd(query, i + 1, inBrace,
                                      Append(paramName, ch), paramNames)
    ELSE ScanParamNamesClosingAtEnd(query, i + 1, inBrace, paramName,
                                    paramNames)

extractArgsClosingAtEnd(query, params) ==
  LookupArgs(ScanParamNamesClosingAtEnd(query, 1, FALSE, <<>>, <<>>),
             params, 1, <<>>)

extractArgs(query, params) ==
  LookupArgs(ScanParamNames(query, 1, FALSE, <<>>, <<>>), params, 1, <<>>)

----------------------------------------------------------------------------
(* replaceNamedParams *)

RECURSIVE ReplaceScan(_, _, _, _, _)
ReplaceScan(query, i, inBrace, paramIndex, result) ==
  IF i > Len(query) THEN result
  ELSE LET ch == query[i] IN
    IF ch = "{"
      THEN ReplaceScan(query, i + 1, TRUE, paramIndex + 1,
                       result \o PositionalMarker(paramIndex))
    ELSE IF ch = "}" /\ inBrace
      THEN ReplaceScan(query, i + 1, FALSE, paramIndex, result)
    ELSE IF ~inBrace
      THEN ReplaceScan(query, i + 1, inBrace, paramIndex, Append(result, ch))
    ELSE ReplaceScan(query, i + 1, inBrace, paramIndex, result)

\* mutant: a marker only where a "}" closes an open brace
RECURSIVE ReplaceScanAtClose(_, _, _, _, _)
ReplaceScanAtClose(query, i, inBrace, paramIndex, result) ==
  IF i > Len(query) THEN result
  ELSE LET ch == query[i] IN
    IF ch = "{"
      THEN ReplaceScanAtClose(query, i + 1, TRUE, paramIndex, result)
    ELSE IF ch = "}" /\ inBrace
      THEN ReplaceScanAtClose(query, i + 1, FALSE, paramIndex + 1,
                              result \o PositionalMarker(paramIndex))
    ELSE IF ~inBrace
      THEN ReplaceScanAtClose(query, i + 1, inBrace, paramIndex,
                              Append(result, ch))
    ELSE ReplaceScanAtClose(query, i + 1, inBrace, paramIndex, result)

replaceNamedParamsAtClose(query) ==
  ReplaceScanAtClose(query, 1, FALSE, 1, <<>>)

\* mutant: the markers count from 0
RECURSIVE ReplaceScanFromZero(_, _, _, _, _)
ReplaceScanFromZero(query, i, inBrace, paramIndex, result) ==
  IF i > Len(query) THEN result
  ELSE LET ch == query[i] IN
    IF ch = "{"
      THEN ReplaceScanFromZero(query, i + 1, TRUE, paramIndex + 1,
                               result \o PositionalMarker(paramIndex))
    ELSE IF ch = "}" /\ inBrace
      THEN ReplaceScanFromZero(query, i + 1, FALSE, paramIndex, result)
    ELSE IF ~inBrace
      THEN ReplaceScanFromZero(query, i + 1, inBrace, paramIndex,
                               Append(result, ch))
    ELSE ReplaceScanFromZero(query, i + 1, inBrace, paramIndex, result)

replaceNamedParamsFromZero(query) ==
  ReplaceScanFromZero(query, 1, FALSE, 0, <<>>)

replaceNamedParams(query) == ReplaceScan(query, 1, FALSE, 1, <<>>)

----------------------------------------------------------------------------
(* The translator called on one template and one parameter map *)

NoArgs == [args |-> <<>>, isNil |-> TRUE, err |-> NoError]

\* the goroutines that call the translator at the same time
Callers == {1, 2}

\* the local variables of a caller that is in no call
NoLocals ==
  [fn |-> "none", pc |-> "idle", i |-> 0, inBrace |-> FALSE,
   paramName |-> <<>>, paramNames |-> <<>>, paramIndex |-> 0,
   result |-> <<>>, args |-> NoArgs]

NoProcs == [p \in Callers |-> NoLocals]

TInit ==
  /\ tq \in Templates
  /\ tparams \in ParamMaps
  /\ tcalls = {}
  /\ targs = NoArgs
  /\ tstmt = <<>>
  /\ procs = NoProcs

CallExtractArgs ==
  /\ "extractArgs" \notin tcalls
  /\ targs' = extractArgs(tq, tparams)
  /\ tcalls' = tcalls \cup {"extractArgs"}
  /\ UNCHANGED <<tq, tparams, tstmt, procs, avars>>

CallReplaceNamedParams ==
  /\ "replaceNamedParams" \notin tcalls
  /\ tstmt' = replaceNamedParams(tq)
  /\ tcalls' = tcalls \cup {"replaceNamedParams"}
  /\ UNCHANGED <<tq, tparams, targs, procs, avars>>

TNext == CallExtractArgs \/ CallReplaceNamedParams

----------------------------------------------------------------------------
(* The translator statement by statement, for callers that run together:   *)
(* every variable of the two functions is a local of the call; the query   *)
(* and the parameter map are only read.                                    *)

\* the call of fn begins: its locals as declared
BeginCall(p, fn) ==
  /\ procs[p].pc = "idle"
  /\ procs' = [procs EXCEPT ![p] =
                 [NoLocals EXCEPT !.fn = fn, !.pc = "scan", !.i = 1,
                                  !.paramIndex = 1]]
  /\ UNCHANGED <<tq, tparams, tcalls, targs, tstmt, avars>>

\* one pass of extractArgs' loop over the query, on the locals l
ExtractScan(l, query) ==
  LET ch == query[l.i] IN
  IF ch = "{"
    THEN [l EXCEPT !.i = l.i + 1, !.inBrace = TRUE, !.paramName = <<>>]
  ELSE IF ch = "}" /\ l.inBrace
    THEN [l EXCEPT !.i = l.i + 1, !.inBrace = FALSE,
                   !.paramNames = Append(@, l.paramName)]
  ELSE IF l.inBrace
    THEN [l EXCEPT !.i = l.i + 1, !.paramName = Append(@, ch)]
  ELSE [l EXCEPT !.i = l.i + 1]

\* one pass of replaceNamedParams' loop over the query, on the locals l
ReplaceStep(l, query) ==
  LET ch == query[l.i] IN
  IF ch = "{"
    THEN [l EXCEPT !.i = l.i + 1, !.inBrace = TRUE,
                   !.result = @ \o PositionalMarker(l.paramIndex),
                   !.paramIndex = l.paramIndex + 1]
  ELSE IF ch = "}" /\ l.inBrace
    THEN [l EXCEPT !.i = l.i + 1, !.inBrace = FALSE]
  ELSE IF ~l.inBrace
    THEN [l EXCEPT !.i = l.i + 1, !.result = Append(@, ch)]
  ELSE [l EXCEPT !.i = l.i + 1]

\* mutant: the name being read is kept in one buffer shared by all callers
ScanStepSharedName(p) ==
  LET shared == CHOOSE q \in Callers : \A q2 \in Callers : q <= q2
      l == [procs[p] EXCEPT !.paramName = procs[shared].paramName]
      l1 == IF l.i > Len(tq)
              THEN IF l.fn = "extractArgs"
                     THEN [l EXCEPT !.pc = "lookup", !.i = 1,
                                    !.args = [args |-> <<>>, isNil |-> FALSE,
                                              err |-> NoError]]
                   ELSE [l EXCEPT !.pc = "done"]
            ELSE IF l.fn = "extractArgs" THEN ExtractScan(l, tq)
            ELSE ReplaceStep(l, tq)
  IN
  /\ procs[p].pc = "scan"
  /\ procs' = [q \in Callers |->
                 IF q = p THEN l1
                 ELSE IF q = shared
                   THEN [procs[q] EXCEPT !.paramName = l1.paramName]
                 ELSE procs[q]]
  /\ UNCHANGED <<tq, tparams, tcalls, targs, tstmt, avars>>

\* a caller runs one pass of the loop over the query, or leaves the loop:
\* extractArgs goes on to its lookups, replaceNamedParams returns
ScanStep(p) ==
  LET l == procs[p] IN
  /\ l.pc = "scan"
  /\ procs' = [procs EXCEPT ![p] =
       IF l.i > Len(tq)
         THEN IF l.fn = "extractArgs"
                THEN [l EXCEPT !.pc = "lookup", !.i = 1,
                               !.args = [args |-> <<>>, isNil |-> FALSE,
                                         err |-> NoError]]
              ELSE [l EXCEPT !.pc = "done"]
       ELSE IF l.fn = "extractArgs" THEN ExtractScan(l, tq)
       ELSE ReplaceStep(l, tq)]
  /\ UNCHANGED <<tq, tparams, tcalls, targs, tstmt, avars>>

\* a caller in extractArgs looks up one name, or returns
LookupStep(p) ==
  LET l == procs[p] IN
  /\ l.pc = "lookup"
  /\ procs' = [procs EXCEPT ![p] =
       IF l.i > Len(l.paramNames) THEN [l EXCEPT !.pc = "done"]
       ELSE IF l.paramNames[l.i] \notin DOMAIN tparams
         THEN [l EXCEPT !.pc = "done",
                        !.args = [args |-> <<>>, isNil |-> TRUE,
                                  err |-> MissingParameter(l.paramNames[l.i])]]
       ELSE [l EXCEPT !.i = l.i + 1,
                      !.args.args = Append(@, tparams[l.paramNames[l.i]])]]
  /\ UNCHANGED <<tq, tparams, tcalls, targs, tstmt, avars>>

\* the caller has its result; its locals are gone
ReturnCall(p) ==
  /\ procs[p].pc = "done"
  /\ procs' = [procs EXCEPT ![p] = NoLocals]
  /\ UNCHANGED <<tq, tparams, tcalls, targs, tstmt, avars>>

----------------------------------------------------------------------------
(* strings.Join and the symbols of the generated SQL *)

RECURSIVE Join(_, _)
Join(elems, sep) ==
  IF Len(elems) = 0 THEN <<>>
  ELSE IF Len(elems) = 1 THEN elems[1]
  ELSE elems[1] \o sep \o Join(Tail(elems), sep)

CommaSpace == <<",", " ">>

\* the words and signs of the INSERT formats; a word (a keyword, a table or
\* column name) is one symbol, every sign and digit is a character
InsertInto == <<"INSERT", " ", "INTO", " ">>
ValuesWord == <<" ", "VALUES", " ">>
ReturningWord == <<" ", "RETURNING", " ">>

----------------------------------------------------------------------------
(* The adapter struct and the pools of database/sql *)

DefaultMaxConn == 10
DefaultMaxIdle == 5
DefaultConnMaxAge == 3600
DefaultPort == 5432

\* most pools one adapter opens in a run of the model
MaxPools == 2

\* a nil *sql.DB
NilDB == 0

NoDSN == <<>>

NewPostgreSQLAdapter ==
  [db |-> NilDB, dsn |-> NoDSN, maxConn |-> DefaultMaxConn,
   maxIdle |-> DefaultMaxIdle, connMaxAge |-> DefaultConnMaxAge]

\* config values carry their dynamic type
IntVal(n) == [type |-> "int", v |-> n]
StrVal(s) == [type |-> "string", v |-> s]
FloatVal(n) == [type |-> "float64", v |-> n]

getStringConfig(config, key, defaultVal) ==
  IF key \in DOMAIN config /\ config[key].type = "string"
    THEN config[key].v ELSE defaultVal

getIntConfig(config, key, defaultVal) ==
  IF key \in DOMAIN config /\ config[key].type = "int" THEN config[key].v
  ELSE IF key \in DOMAIN config /\ config[key].type = "float64"
    THEN config[key].v
  ELSE defaultVal

\* config[key].(int) with its ok flag
IntOption(config, key, current) ==
  IF key \in DOMAIN config /\ config[key].type = "int"
    THEN config[key].v ELSE current

\* the fields of the connection string, in the order Sprintf writes them
BuildDSN(config) ==
  [host |-> getStringConfig(config, "host", "localhost"),
   port |-> getIntConfig(config, "port", DefaultPort),
   user |-> getStringConfig(config, "user", "postgres"),
   password |-> getStringConfig(config, "password", ""),
   dbname |-> getStringConfig(config, "database", ""),
   sslmode |-> getStringConfig(config, "sslmode", "disable")]

----------------------------------------------------------------------------
(* Errors of the adapter *)

Err(kind) == [kind |-> kind, name |-> <<>>]

ErrNotConnected == Err("not connected")
ErrNotFound == Err("not found")

----------------------------------------------------------------------------
(* A call of the adapter *)

NoOperation ==
  [Statement |-> <<>>, Properties |-> <<>>, Generated |-> <<>>,
   Multi |-> FALSE]

NilResults == [rows |-> <<>>, isNil |-> TRUE]

NoCall ==
  [name |-> "none", pc |-> "idle", op |-> NoOperation, params |-> <<>>,
   objects |-> <<>>, objects0 |-> <<>>, i |-> 0, issued |-> <<>>,
   err |-> NoError, results |-> NilResults, pre |-> NewPostgreSQLAdapter]

\* a call that starts now: nothing issued, no result yet
Begin(name, op, params, objects) ==
  [name |-> name, pc |-> "running", op |-> op, params |-> params,
   objects |-> objects, objects0 |-> objects, i |-> 1, issued |-> <<>>,
   err |-> NoError, results |-> NilResults, pre |-> a]

Return(c, err) == [c EXCEPT !.pc = "done", !.err = err]

\* one statement handed to the pool, with what the driver answered
Statement(kind, query, args, outcome) ==
  [kind |-> kind, query |-> query, args |-> args, pool |-> a.db,
   outcome |-> outcome]

Issue(c, stmt) == [c EXCEPT !.issued = Append(@, stmt)]

\* a closed pool refuses every statement
PoolOpen == a.db # NilDB /\ pools[a.db].open

\* the caller makes one call at a time
Idle == call.pc = "idle"

\* the finished call's results go back to the caller
Returned ==
  /\ call.pc = "done"
  /\ call' = NoCall
  /\ UNCHANGED <<a, pools, tvars>>

AInit ==
  /\ a = NewPostgreSQLAdapter
  /\ pools = <<>>
  /\ call = NoCall

TIdle ==
  /\ tq = <<>>
  /\ tparams = <<>>
  /\ tcalls = {}
  /\ targs = NoArgs
  /\ tstmt = <<>>
  /\ procs = NoProcs

----------------------------------------------------------------------------
(* Connect and Close *)

\* configs: nothing given, a host and one pool option, every pool option,
\* a pool option as a float64 (a number decoded from JSON)
Configs ==
  { <<>>,
    [k \in {"host", "max_connections"} |->
       IF k = "host" THEN StrVal("db1") ELSE IntVal(20)],
    [k \in {"max_connections", "max_idle", "conn_max_age_seconds"} |->
       IF k = "max_connections" THEN IntVal(30)
       ELSE IF k = "max_idle" THEN IntVal(3) ELSE IntVal(60)],
    [k \in {"max_idle"} |-> FloatVal(7)] }

ConnectOutcomes == {"open error", "ping error", "ok"}

\* what sql.Open and PingContext answered for the pool of one attempt
Attempt(db, outcome) ==
  [kind |-> "connect", query |-> <<>>, args |-> <<>>, pool |-> db,
   outcome |-> outcome]

\* mutant: the handle is stored as soon as the pool is opened, before the ping
ConnectAssigningEarly(config, outcome) ==
  LET a1 == [a EXCEPT
               !.maxConn = IntOption(config, "max_connections", @),
               !.maxIdle = IntOption(config, "max_idle", @),
               !.connMaxAge = IntOption(config, "conn_max_age_seconds", @),
               !.dsn = BuildDSN(config)]
      db == Len(pools) + 1
      opened == [open |-> TRUE, maxOpen |-> a1.maxConn,
                 maxIdle |-> a1.maxIdle, maxLifetime |-> 0]
      c == Begin("Connect", NoOperation, config, <<>>)
  IN
  /\ Idle
  /\ Len(pools) < MaxPools
  /\ IF outcome = "open error"
       THEN /\ a' = a1
            /\ pools' = pools
            /\ call' = Return(Issue(c, Attempt(NilDB, outcome)),
                              Err("failed to open connection"))
     ELSE IF outcome = "ping error"
       THEN /\ a' = [a1 EXCEPT !.db = db]
            /\ pools' = Append(pools, [opened EXCEPT !.open = FALSE])
            /\ call' = Return(Issue(c, Attempt(db, outcome)),
                              Err("failed to ping database"))
     ELSE /\ a' = [a1 EXCEPT !.db = db]
          /\ pools' = Append(pools, opened)
          /\ call' = Return(Issue(c, Attempt(db, outcome)), NoError)
  /\ UNCHANGED tvars

Connect(config, outcome) ==
  LET a1 == [a EXCEPT
               !.maxConn = IntOption(config, "max_connections", @),
               !.maxIdle = IntOption(config, "max_idle", @),
               !.connMaxAge = IntOption(config, "conn_max_age_seconds", @),
               !.dsn = BuildDSN(config)]
      db == Len(pools) + 1
      \* sql.Open, then SetMaxOpenConns and SetMaxIdleConns; the lifetime of
      \* a connection stays at the 0 (no limit) of a new sql.DB
      opened == [open |-> TRUE, maxOpen |-> a1.maxConn,
                 maxIdle |-> a1.maxIdle, maxLifetime |-> 0]
      c == Begin("Connect", NoOperation, config, <<>>)
  IN
  /\ Idle
  /\ Len(pools) < MaxPools
  /\ IF outcome = "open error"
       THEN /\ a' = a1
            /\ pools' = pools
            /\ call' = Return(Issue(c, Attempt(NilDB, outcome)),
                              Err("failed to open connection"))
     ELSE IF outcome = "ping error"
       THEN /\ a' = a1
            /\ pools' = Append(pools, [opened EXCEPT !.open = FALSE])
            /\ call' = Return(Issue(c, Attempt(db, outcome)),
                              Err("failed to ping database"))
     ELSE /\ a' = [a1 EXCEPT !.db = db]
          /\ pools' = Append(pools, opened)
          /\ call' = Return(Issue(c, Attempt(db, outcome)), NoError)
  /\ UNCHANGED tvars

Close ==
  /\ Idle
  /\ call' = Return(Begin("Close", NoOperation, <<>>, <<>>), NoError)
  /\ pools' = IF a.db # NilDB THEN [pools EXCEPT ![a.db].open = FALSE]
              ELSE pools
  /\ UNCHANGED <<a, tvars>>

----------------------------------------------------------------------------
(* Inputs of the operations *)

\* most rows of a batch, and most rows a cursor yields
MaxRows == 3

\* obj[field] on a Go map: the nil value when the key is absent
MapIndex(obj, field) == IF field \in DOMAIN obj THEN obj[field] ELSE Null

\* obj[field] = val on a Go map
MapAssign(obj, field, val) ==
  [f \in DOMAIN obj \cup {field} |-> IF f = field THEN val ELSE obj[f]]

\* a Go map literal with one or two entries
Map1(k, v) == [f \in {k} |-> v]
Map2(k1, v1, k2, v2) == [f \in {k1, k2} |-> IF f = k1 THEN v1 ELSE v2]

SeqsUpTo(S, n) == UNION {[1..k -> S] : k \in 0..n}

\* statements with placeholders: none, one, two, the same twice, unclosed
StatementTemplates ==
  { <<"x">>,
    <<"{", "a", "}">>,
    <<"{", "a", "}", "x", "{", "b", "}">>,
    <<"{", "i", "d", "}">>,
    <<"x", "{", "a">> }

OpParamMaps ==
  { <<>>, Map1(<<"a">>, "v1"), Map1(<<"a">>, Null),
    Map2(<<"a">>, "v1", <<"b">>, "v2"), Map1(<<"i", "d">>, "v2") }

QueryOps ==
  { [Statement |-> t, Properties |-> <<>>, Generated |-> <<>>, Multi |-> m] :
      t \in StatementTemplates, m \in BOOLEAN }

PropA == [ObjectField |-> <<"a">>, DataField |-> <<"col_a">>]
PropB == [ObjectField |-> <<"b">>, DataField |-> <<"col_b">>]
GenG == [ObjectField |-> <<"g">>, DataField |-> <<"id">>]
GenH == [ObjectField |-> <<"h">>, DataField |-> <<"created_at">>]

InsertOps ==
  { [Statement |-> <<"users">>, Properties |-> P, Generated |-> G,
     Multi |-> FALSE] :
      P \in {<<PropA>>, <<PropA, PropB>>},
      G \in {<<>>, <<GenG>>, <<GenG, GenH>>} }

\* row objects: every field set, a field absent, a null field, a generated
\* field already set
RowObjects ==
  { Map2(<<"a">>, "v1", <<"b">>, "v2"), Map1(<<"a">>, "v2"),
    Map2(<<"a">>, Null, <<"g">>, "v1") }

\* identifiers of Delete: a map with or without "id", or a bare value
Identifiers ==
  { [isMap |-> TRUE, map |-> Map1(<<"i", "d">>, "v1"), val |-> Null],
    [isMap |-> TRUE, map |-> Map1(<<"a">>, "v1"), val |-> Null],
    [isMap |-> FALSE, map |-> <<>>, val |-> "v2"] }

\* the value tuples a cursor or a RETURNING row may hold for n columns
RowTuples(n) ==
  { t \in [1..n -> {"v1", "v2"}] : \A j \in 2..n : t[j] # t[j - 1] }

CursorColumns == { <<"id">>, <<"id", "name">> }

\* what the driver answers to QueryContext and to the cursor's methods
QueryOutcomes ==
  { [stage |-> st, columns |-> <<>>, rows |-> <<>>] :
      st \in {"query error", "columns error"} }
  \cup
  { o \in [stage : {"scan error", "rows error", "ok"},
             columns : CursorColumns,
             rows : SeqsUpTo({"v1", "v2"}, MaxRows)] :
      \* a scan fails on a row
      o.stage = "scan error" => Len(o.rows) > 0 }

\* the cursor's row k for the columns given: its first cell is the cursor's
\* entry, the next cells alternate
CursorRow(cols, first) ==
  [j \in 1..Len(cols) |->
     IF j % 2 = 1 THEN first ELSE IF first = "v1" THEN "v2" ELSE "v1"]

\* what the driver answers to ExecContext and to RowsAffected
ExecOutcomes ==
  { [stage |-> st, rowsAffected |-> 0] :
      st \in {"exec error", "rows affected error"} }
  \cup { [stage |-> "ok", rowsAffected |-> n] : n \in 0..2 }

\* what the driver answers to QueryRowContext(...).Scan(...)
ReturningOutcomes(n) ==
  { [ok |-> FALSE, returned |-> <<>>] }
  \cup { [ok |-> TRUE, returned |-> t] : t \in RowTuples(n) }

----------------------------------------------------------------------------
(* Fetch and Execute *)

\* the scan loop: one map per row, keyed by column name
RECURSIVE ScanRows(_, _, _, _)
ScanRows(columns, rows, k, results) ==
  IF k > Len(rows) THEN results
  ELSE LET values == CursorRow(columns, rows[k])
           result == [col \in {columns[i] : i \in 1..Len(columns)} |->
                        values[CHOOSE i \in 1..Len(columns) :
                                 /\ columns[i] = col
                                 /\ \A i2 \in (i + 1)..Len(columns) :
                                      columns[i2] # col]]
       IN ScanRows(columns, rows, k + 1,
                   [rows |-> Append(results.rows, result), isNil |-> FALSE])

\* mutant: Fetch ignores the Multi flag
FetchIgnoringMulti(op, params, outcome) ==
  LET c0 == Begin("Fetch", op, params, <<>>)
      args == extractArgs(op.Statement, params)
      query == replaceNamedParams(op.Statement)
      c1 == Issue(c0, Statement("query", query, args.args, outcome))
      results == ScanRows(outcome.columns, outcome.rows, 1, NilResults)
  IN
  /\ Idle
  /\ outcome.stage # "query error" => PoolOpen
  /\ call' =
       IF a.db = NilDB THEN Return(c0, ErrNotConnected)
       ELSE IF args.err # NoError THEN Return(c0, args.err)
       ELSE IF outcome.stage # "ok" THEN Return(c1, Err(outcome.stage))
       ELSE IF Len(results.rows) = 0 THEN Return(c1, ErrNotFound)
       ELSE Return([c1 EXCEPT !.results = results], NoError)
  /\ UNCHANGED <<a, pools, tvars>>

Fetch(op, params, outcome) ==
  LET c0 == Begin("Fetch", op, params, <<>>)
      args == extractArgs(op.Statement, params)
      query == replaceNamedParams(op.Statement)
      c1 == Issue(c0, Statement("query", query, args.args, outcome))
      results == ScanRows(outcome.columns, outcome.rows, 1, NilResults)
  IN
  /\ Idle
  /\ outcome.stage # "query error" => PoolOpen
  /\ call' =
       IF a.db = NilDB THEN Return(c0, ErrNotConnected)
       ELSE IF args.err # NoError THEN Return(c0, args.err)
       ELSE IF outcome.stage = "query error"
         THEN Return(c1, Err("query failed"))
       ELSE IF outcome.stage = "columns error"
         THEN Return(c1, Err("failed to get columns"))
       ELSE IF outcome.stage = "scan error"
         THEN Return(c1, Err("scan failed"))
       ELSE IF outcome.stage = "rows error"
         THEN Return(c1, Err("rows iteration failed"))
       ELSE IF Len(results.rows) = 0 /\ ~op.Multi
         THEN Return(c1, ErrNotFound)
       ELSE Return([c1 EXCEPT !.results = results], NoError)
  /\ UNCHANGED <<a, pools, tvars>>

Execute(action, params, outcome) ==
  LET c0 == Begin("Execute", action, params, <<>>)
      args == extractArgs(action.Statement, params)
      query == replaceNamedParams(action.Statement)
      c1 == Issue(c0, Statement("query", query, args.args, outcome))
      results == ScanRows(outcome.columns, outcome.rows, 1, NilResults)
  IN
  /\ Idle
  /\ outcome.stage # "query error" => PoolOpen
  /\ call' =
       IF a.db = NilDB THEN Return(c0, ErrNotConnected)
       ELSE IF args.err # NoError THEN Return(c0, args.err)
       ELSE IF outcome.stage = "query error"
         THEN Return(c1, Err("execute failed"))
       ELSE IF outcome.stage = "columns error"
         THEN Return(c1, Err("failed to get columns"))
       ELSE IF outcome.stage = "scan error"
         THEN Return(c1, Err("scan failed"))
       ELSE IF outcome.stage = "rows error"
         \* return results, rows.Err()
         THEN Return([c1 EXCEPT !.results = results], Err("rows error"))
       ELSE Return([c1 EXCEPT !.results = results], NoError)
  /\ UNCHANGED <<a, pools, tvars>>

----------------------------------------------------------------------------
(* Insert *)

\* columns[i] = prop.DataField
DataFields(mappings) == [i \in 1..Len(mappings) |-> mappings[i].DataField]

\* the rows of insertBulk's loop from row i on: the value tuples, the flat
\* argument vector and the running paramIndex
RECURSIVE BulkRows(_, _, _, _)
BulkRows(op, objects, i, acc) ==
  IF i > Len(objects) THEN acc
  ELSE LET obj == objects[i]
           n == Len(op.Properties)
           placeholders ==
             [j \in 1..n |-> PositionalMarker(acc.paramIndex + j - 1)]
           values ==
             [j \in 1..n |-> MapIndex(obj, op.Properties[j].ObjectField)]
       IN BulkRows(op, objects, i + 1,
            [valueRows |-> Append(acc.valueRows,
                             <<"(">> \o Join(placeholders, CommaSpace)
                                     \o <<")">>),
             allValues |-> acc.allValues \o values,
             paramIndex |-> acc.paramIndex + n])

\* mutant: paramIndex starts again at 1 for every row
RECURSIVE BulkRowsRestarting(_, _, _, _)
BulkRowsRestarting(op, objects, i, acc) ==
  IF i > Len(objects) THEN acc
  ELSE LET obj == objects[i]
           n == Len(op.Properties)
           placeholders == [j \in 1..n |-> PositionalMarker(j)]
           values ==
             [j \in 1..n |-> MapIndex(obj, op.Properties[j].ObjectField)]
       IN BulkRowsRestarting(op, objects, i + 1,
            [valueRows |-> Append(acc.valueRows,
                             <<"(">> \o Join(placeholders, CommaSpace)
                                     \o <<")">>),
             allValues |-> acc.allValues \o values,
             paramIndex |-> 1])

BulkStatement(op, built) ==
  InsertInto \o op.Statement \o <<" ", "(">>
    \o Join(DataFields(op.Properties), CommaSpace)
    \o <<")">> \o ValuesWord \o Join(built.valueRows, CommaSpace)

insertBulkRestarting(c, outcome) ==
  LET built == BulkRowsRestarting(c.op, c.objects, 1,
                 [valueRows |-> <<>>, allValues |-> <<>>, paramIndex |-> 1])
      c1 == Issue(c, Statement("exec", BulkStatement(c.op, built),
                               built.allValues, outcome))
  IN IF outcome.stage = "exec error"
       THEN Return(c1, Err("bulk insert failed"))
     ELSE Return(c1, NoError)

\* insertBulk: one statement for the whole batch
insertBulk(c, outcome) ==
  LET built == BulkRows(c.op, c.objects, 1,
                 [valueRows |-> <<>>, allValues |-> <<>>, paramIndex |-> 1])
      c1 == Issue(c, Statement("exec", BulkStatement(c.op, built),
                               built.allValues, outcome))
  IN IF outcome.stage = "exec error"
       THEN Return(c1, Err("bulk insert failed"))
     ELSE Return(c1, NoError)

\* mutant: Insert without its check of the empty batch: the bulk path builds
\* a statement of no tuple, the returning path loops over no row
InsertDispatchingEmpty(op, objects, outcome) ==
  LET c0 == Begin("Insert", op, <<>>, objects) IN
  /\ Idle
  /\ outcome.stage \in {"exec error", "ok"}
  /\ outcome.stage = "ok" => outcome.rowsAffected = Len(objects) /\ PoolOpen
  /\ call' =
       IF a.db = NilDB THEN Return(c0, ErrNotConnected)
       ELSE IF Len(op.Generated) > 0
         THEN (IF Len(objects) = 0 THEN Return(c0, NoError) ELSE c0)
       ELSE insertBulk(c0, outcome)
  /\ UNCHANGED <<a, pools, tvars>>

\* Insert up to its dispatch; the bulk path ends the call, the returning path
\* enters the row loop of insertWithReturning
Insert(op, objects, outcome) ==
  LET c0 == Begin("Insert", op, <<>>, objects) IN
  /\ Idle
  /\ outcome.stage \in {"exec error", "ok"}
  /\ outcome.stage = "ok" => outcome.rowsAffected = Len(objects) /\ PoolOpen
  /\ call' =
       IF a.db = NilDB THEN Return(c0, ErrNotConnected)
       ELSE IF Len(objects) = 0 THEN Return(c0, NoError)
       ELSE IF Len(op.Generated) > 0 THEN c0
       ELSE insertBulk(c0, outcome)
  /\ UNCHANGED <<a, pools, tvars>>

\* mutant: the scanned values are written back in reverse mapping order
RECURSIVE WriteBackReversed(_, _, _, _)
WriteBackReversed(obj, generated, returned, i) ==
  IF i > Len(generated) THEN obj
  ELSE WriteBackReversed(
         MapAssign(obj, generated[i].ObjectField,
                   returned[Len(generated) + 1 - i]),
         generated, returned, i + 1)

\* the write-back loop: obj[gen.ObjectField] = val, in mapping order
RECURSIVE WriteBack(_, _, _, _)
WriteBack(obj, generated, returned, i) ==
  IF i > Len(generated) THEN obj
  ELSE WriteBack(MapAssign(obj, generated[i].ObjectField, returned[i]),
                 generated, returned, i + 1)

ReturningStatement(op) ==
  LET n == Len(op.Properties)
      placeholders == [j \in 1..n |-> PositionalMarker(j)]
  IN InsertInto \o op.Statement \o <<" ", "(">>
       \o Join(DataFields(op.Properties), CommaSpace)
       \o <<")">> \o ValuesWord \o <<"(">>
       \o Join(placeholders, CommaSpace)
       \o <<")">> \o ReturningWord
       \o Join(DataFields(op.Generated), CommaSpace)

\* mutant: the loop goes on to the next row after a failed statement
ReturningRowContinuing(c, outcome) ==
  LET op == c.op
      obj == c.objects[c.i]
      values == [j \in 1..Len(op.Properties) |->
                   MapIndex(obj, op.Properties[j].ObjectField)]
      c1 == Issue(c, Statement("queryrow", ReturningStatement(op), values,
                               outcome))
      c2 == [c1 EXCEPT
               !.objects[c.i] = IF outcome.ok
                                  THEN WriteBack(obj, op.Generated,
                                                 outcome.returned, 1)
                                  ELSE obj,
               !.i = c.i + 1,
               !.err = IF outcome.ok THEN c.err
                       ELSE Err("insert with returning failed")]
  IN IF c.i = Len(c.objects) THEN Return(c2, c2.err)
     ELSE c2

\* mutant: reading a mapped field that the row object lacks stores it as nil
RECURSIVE FillAbsent(_, _, _)
FillAbsent(obj, mappings, j) ==
  IF j > Len(mappings) THEN obj
  ELSE FillAbsent(MapAssign(obj, mappings[j].ObjectField,
                            MapIndex(obj, mappings[j].ObjectField)),
                  mappings, j + 1)

ReturningRowFilling(c, outcome) ==
  LET op == c.op
      obj == FillAbsent(c.objects[c.i], op.Properties, 1)
      values == [j \in 1..Len(op.Properties) |->
                   MapIndex(obj, op.Properties[j].ObjectField)]
      c1 == Issue([c EXCEPT !.objects[c.i] = obj],
                  Statement("queryrow", ReturningStatement(op), values,
                            outcome))
      c2 == [c1 EXCEPT
               !.objects[c.i] = WriteBack(obj, op.Generated,
                                          outcome.returned, 1),
               !.i = c.i + 1]
  IN IF ~outcome.ok THEN Return(c1, Err("insert with returning failed"))
     ELSE IF c.i = Len(c.objects) THEN Return(c2, NoError)
     ELSE c2

\* one pass of the row loop of insertWithReturning, and the return after the
\* last row
ReturningRow(c, outcome) ==
  LET op == c.op
      obj == c.objects[c.i]
      values == [j \in 1..Len(op.Properties) |->
                   MapIndex(obj, op.Properties[j].ObjectField)]
      c1 == Issue(c, Statement("queryrow", ReturningStatement(op), values,
                               outcome))
      c2 == [c1 EXCEPT
               !.objects[c.i] = WriteBack(obj, op.Generated,
                                          outcome.returned, 1),
               !.i = c.i + 1]
  IN IF ~outcome.ok THEN Return(c1, Err("insert with returning failed"))
     ELSE IF c.i = Len(c.objects) THEN Return(c2, NoError)
     ELSE c2

insertWithReturning(outcome) ==
  /\ call.pc = "running"
  /\ call.name = "Insert"
  /\ outcome.ok => PoolOpen
  /\ call' = ReturningRow(call, outcome)
  /\ UNCHANGED <<a, pools, tvars>>

----------------------------------------------------------------------------
(* Update and Delete *)

\* mutant: the loop goes on after a failure and returns the last error
ExecRowContinuing(c, params, failed, outcome) ==
  LET query == c.op.Statement
      args == extractArgs(query, params)
      pgQuery == replaceNamedParams(query)
      c1 == Issue(c, Statement("exec", pgQuery, args.args, outcome))
      err == IF args.err # NoError THEN args.err
             ELSE IF outcome.stage = "exec error" THEN Err(failed)
             ELSE IF outcome.stage = "rows affected error"
               THEN Err("failed to get rows affected")
             ELSE IF outcome.rowsAffected = 0 THEN ErrNotFound
             ELSE c.err
      c2 == [(IF args.err # NoError THEN c ELSE c1) EXCEPT
               !.i = c.i + 1, !.err = err]
  IN IF c.i = Len(c.objects) THEN Return(c2, err)
     ELSE c2

\* one pass of the loop of Update or Delete over the parameters of one object
ExecRow(c, params, failed, outcome) ==
  LET query == c.op.Statement
      args == extractArgs(query, params)
      pgQuery == replaceNamedParams(query)
      c1 == Issue(c, Statement("exec", pgQuery, args.args, outcome))
      c2 == [c1 EXCEPT !.i = c.i + 1]
  IN IF args.err # NoError THEN Return(c, args.err)
     ELSE IF outcome.stage = "exec error" THEN Return(c1, Err(failed))
     ELSE IF outcome.stage = "rows affected error"
       THEN Return(c1, Err("failed to get rows affected"))
     ELSE IF outcome.rowsAffected = 0 THEN Return(c1, ErrNotFound)
     ELSE IF c.i = Len(c.objects) THEN Return(c2, NoError)
     ELSE c2

\* mutant: Update without its check of the connection
UpdateUnchecked(op, objects) ==
  LET c0 == Begin("Update", op, <<>>, objects) IN
  /\ Idle
  /\ call' = IF Len(objects) = 0 THEN Return(c0, NoError) ELSE c0
  /\ UNCHANGED <<a, pools, tvars>>

\* Update up to its loop
Update(op, objects) ==
  LET c0 == Begin("Update", op, <<>>, objects) IN
  /\ Idle
  /\ call' =
       IF a.db = NilDB THEN Return(c0, ErrNotConnected)
       ELSE IF Len(objects) = 0 THEN Return(c0, NoError)
       ELSE c0
  /\ UNCHANGED <<a, pools, tvars>>

UpdateRow(outcome) ==
  /\ call.pc = "running"
  /\ call.name = "Update"
  /\ outcome.stage # "exec error" => PoolOpen
  /\ call' = ExecRow(call, call.objects[call.i], "update failed", outcome)
  /\ UNCHANGED <<a, pools, tvars>>

\* Delete up to its loop
Delete(op, identifiers) ==
  LET c0 == Begin("Delete", op, <<>>, identifiers) IN
  /\ Idle
  /\ call' =
       IF a.db = NilDB THEN Return(c0, ErrNotConnected)
       ELSE IF Len(identifiers) = 0 THEN Return(c0, NoError)
       ELSE c0
  /\ UNCHANGED <<a, pools, tvars>>

\* the parameters of one identifier: the map itself, or {"id": id}
IdentifierParams(id) ==
  IF id.isMap THEN id.map ELSE Map1(<<"i", "d">>, id.val)

DeleteRow(outcome) ==
  /\ call.pc = "running"
  /\ call.name = "Delete"
  /\ outcome.stage # "exec error" => PoolOpen
  /\ call' = ExecRow(call, IdentifierParams(call.objects[call.i]),
                     "delete failed", outcome)
  /\ UNCHANGED <<a, pools, tvars>>

----------------------------------------------------------------------------
(* The specifications *)

\* the translator on every template and parameter map of the bounds
InitTranslator == TInit /\ AInit

SpecTranslator == InitTranslator /\ [][TNext]_vars

\* the callers of Callers in the translator at once, each on the same query
\* and the same parameter map, one statement of one caller at a time
ConcurrentTemplates == {t \in Templates : Len(t) <= MaxLen - 2}

ConcurrentParamMaps == {p \in ParamMaps : \A k \in DOMAIN p : p[k] # Null}

InitConcurrent ==
  /\ tq \in ConcurrentTemplates
  /\ tparams \in ConcurrentParamMaps
  /\ tcalls = {}
  /\ targs = NoArgs
  /\ tstmt = <<>>
  /\ procs = NoProcs
  /\ AInit

NextConcurrent ==
  \/ \E p \in Callers, fn \in {"extractArgs", "replaceNamedParams"} :
       BeginCall(p, fn)
  \/ \E p \in Callers : ScanStep(p)
  \/ \E p \in Callers : LookupStep(p)
  \/ \E p \in Callers : ReturnCall(p)

SpecConcurrent == InitConcurrent /\ [][NextConcurrent]_vars

\* the adapter: one caller, one call at a time, connecting once
Init == TIdle /\ AInit

\* a call starts when none is in progress; the row loops run in between
Next ==
  \/ Idle /\ pools = <<>> /\ \E o \in ConnectOutcomes : Connect(<<>>, o)
  \/ Close
  \/ Idle /\ \E op \in QueryOps, p \in OpParamMaps, o \in QueryOutcomes :
               Fetch(op, p, o)
  \/ Idle /\ \E op \in QueryOps, p \in OpParamMaps, o \in QueryOutcomes :
               Execute(op, p, o)
  \/ Idle /\ \E op \in InsertOps, objs \in SeqsUpTo(RowObjects, MaxRows),
                o \in ExecOutcomes :
               Insert(op, objs, o)
  \/ \E o \in ReturningOutcomes(Len(call.op.Generated)) :
       insertWithReturning(o)
  \/ Idle /\ \E op \in QueryOps, objs \in SeqsUpTo(OpParamMaps, MaxRows) :
               Update(op, objs)
  \/ \E o \in ExecOutcomes : UpdateRow(o)
  \/ Idle /\ \E op \in QueryOps, ids \in SeqsUpTo(Identifiers, MaxRows) :
               Delete(op, ids)
  \/ \E o \in ExecOutcomes : DeleteRow(o)
  \/ Returned

Spec == Init /\ [][Next]_vars

\* the life of one adapter: Connect with any config, again and again, Close,
\* and a query in between
ProbeOps == {op \in QueryOps : op.Statement = <<"x">>}

InitLifecycle == TIdle /\ AInit

NextLifecycle ==
  \/ Idle /\ \E config \in Configs, o \in ConnectOutcomes : Connect(config, o)
  \/ Close
  \/ Idle /\ \E op \in ProbeOps, o \in QueryOutcomes : Fetch(op, <<>>, o)
  \/ Returned

SpecLifecycle == InitLifecycle /\ [][NextLifecycle]_vars

----------------------------------------------------------------------------
(* What a template holds, read off its characters by position *)

Opens(t) == {i \in 1..Len(t) : t[i] = "{"}

\* every "{" is followed by a "}" before the next "{" and before the end
WellFormed(t) ==
  \A i \in Opens(t) :
    \E j \in (i + 1)..Len(t) :
      /\ t[j] = "}"
      /\ \A k \in (i + 1)..(j - 1) : t[k] \notin {"{", "}"}

\* the elements of a set of numbers in increasing order
Ascending(S) ==
  [k \in 1..Cardinality(S) |->
     CHOOSE x \in S : Cardinality({y \in S : y < x}) = k - 1]

\* the first "}" after position i
ClosingOf(t, i) ==
  CHOOSE j \in (i + 1)..Len(t) :
    /\ t[j] = "}"
    /\ \A k \in (i + 1)..(j - 1) : t[k] # "}"

\* the names of the {name} occurrences of a well-formed template, left to
\* right
OccurrenceNames(t) ==
  LET opens == Ascending(Opens(t))
  IN [k \in 1..Len(opens) |->
        SubSeq(t, opens[k] + 1, ClosingOf(t, opens[k]) - 1)]

\* the "}" that close an open brace, in any template
Closers(t) ==
  {j \in 1..Len(t) :
     /\ t[j] = "}"
     /\ \E i \in Opens(t) :
          i < j /\ \A k \in (i + 1)..(j - 1) : t[k] # "}"}

\* the last "{" before position j
LastOpenBefore(t, j) ==
  CHOOSE i \in Opens(t) : i < j /\ \A i2 \in Opens(t) : i2 < j => i2 <= i

\* the names extractArgs looks up, in any template: for every closing brace
\* the text after the most recent "{"
LookedUpNames(t) ==
  LET closers == Ascending(Closers(t))
  IN [k \in 1..Len(closers) |->
        SubSeq(t, LastOpenBefore(t, closers[k]) + 1, closers[k] - 1)]

Covers(p, names) == \A k \in 1..Len(names) : names[k] \in DOMAIN p

----------------------------------------------------------------------------
(* Reading a statement back: its $k markers and the text between them *)

IsDigit(ch) == \E d \in 1..10 : DigitChars[d] = ch

DigitValue(ch) == (CHOOSE d \in 1..10 : DigitChars[d] = ch) - 1

\* the last position of the run of digits that starts at position i
RECURSIVE DigitsEnd(_, _)
DigitsEnd(s, i) ==
  IF i + 1 <= Len(s) /\ IsDigit(s[i + 1]) THEN DigitsEnd(s, i + 1) ELSE i

RECURSIVE NumberAt(_, _, _)
NumberAt(s, i, e) ==
  IF i = e THEN DigitValue(s[e])
  ELSE 10 * NumberAt(s, i, e - 1) + DigitValue(s[e])

Literal(ch) == [kind |-> "text", ch |-> ch, n |-> 0]
Marker(n) == [kind |-> "marker", ch |-> "$", n |-> n]

\* a statement as text characters and markers
RECURSIVE ParseStatement(_, _)
ParseStatement(s, i) ==
  IF i > Len(s) THEN <<>>
  ELSE IF s[i] = "$" /\ i + 1 <= Len(s) /\ IsDigit(s[i + 1])
    THEN LET e == DigitsEnd(s, i + 1)
         IN <<Marker(NumberAt(s, i + 1, e))>> \o ParseStatement(s, e + 1)
  ELSE <<Literal(s[i])>> \o ParseStatement(s, i + 1)

IsMarker(x) == x.kind = "marker"

\* the numbers of the markers of a statement, in order of appearance
MarkersOf(s) ==
  LET items == SelectSeq(ParseStatement(s, 1), IsMarker)
  IN [k \in 1..Len(items) |-> items[k].n]

OneTo(n) == [k \in 1..n |-> k]

Extracted == "extractArgs" \in tcalls
Translated == "replaceNamedParams" \in tcalls

----------------------------------------------------------------------------
(* C1: for any template, unmatched or repeated braces included, and any    *)
(* parameter map holding every name extractArgs looks up, the statement of *)
(* replaceNamedParams holds as many markers as extractArgs returns         *)
(* values, numbered 1..n in order of appearance.                           *)
C1_MarkersMatchArgs ==
  (Extracted /\ Translated /\ Covers(tparams, LookedUpNames(tq)))
    => /\ targs.err = NoError
       /\ MarkersOf(tstmt) = OneTo(Len(targs.args))

(* C2: for a well-formed template and a parameter map covering its names,  *)
(* extractArgs returns one value per placeholder occurrence, in order of   *)
(* occurrence, a repeated name giving repeated entries; with no            *)
(* placeholder the vector is empty, not nil, and there is no error.        *)
C2_OneValuePerOccurrence ==
  (Extracted /\ WellFormed(tq) /\ Covers(tparams, OccurrenceNames(tq)))
    => /\ targs.err = NoError
       /\ ~targs.isNil
       /\ Len(targs.args) = Cardinality(Opens(tq))
       /\ targs.args =
            [k \in 1..Cardinality(Opens(tq)) |->
               tparams[OccurrenceNames(tq)[k]]]

\* {a}{b}{a} with a = v1, b = v2 gave [v1, v2, v1]
C2_Witness ==
  /\ Extracted
  /\ tq = <<"{", "a", "}", "{", "b", "}", "{", "a", "}">>
  /\ tparams = Map2(<<"a">>, "v1", <<"b">>, "v2")
  /\ targs.args = <<"v1", "v2", "v1">>

----------------------------------------------------------------------------
(* The {name} runs of a template, and the template with its runs replaced *)

\* a {name} run starts at position i
RunStart(t, i) ==
  /\ t[i] = "{"
  /\ \E j \in (i + 1)..Len(t) :
       /\ t[j] = "}"
       /\ \A k \in (i + 1)..(j - 1) : t[k] \notin {"{", "}"}

InRun(t, p) == \E i \in 1..p : RunStart(t, i) /\ p <= ClosingOf(t, i)

RECURSIVE RunsReplaced(_, _)
RunsReplaced(t, p) ==
  IF p > Len(t) THEN <<>>
  ELSE IF RunStart(t, p)
    THEN <<Marker(Cardinality({i \in 1..p : RunStart(t, i)}))>>
           \o RunsReplaced(t, p + 1)
  ELSE IF InRun(t, p) THEN RunsReplaced(t, p + 1)
  ELSE <<Literal(t[p])>> \o RunsReplaced(t, p + 1)

(* C3: replaceNamedParams returns the input with every {name} run replaced *)
(* by the marker $k, k counting the runs from 1 left to right, and every   *)
(* other character copied unchanged and in order; a template without a     *)
(* placeholder comes back unchanged.                                       *)
C3_RunsReplaced ==
  Translated => ParseStatement(tstmt, 1) = RunsReplaced(tq, 1)

\* C3 on the templates whose every "{" opens a {name} run only
C3_RunsReplacedWellFormed ==
  (Translated /\ WellFormed(tq))
    => ParseStatement(tstmt, 1) = RunsReplaced(tq, 1)

----------------------------------------------------------------------------
(* C4: when a name extractArgs looks up is absent from the parameter map,  *)
(* the error names the leftmost absent name and the vector is nil, never   *)
(* partly filled, whatever resolved before; a name present with a null     *)
(* value is not missing.                                                   *)
C4_FirstMissingName ==
  Extracted =>
    LET names == LookedUpNames(tq)
        absent == {k \in 1..Len(names) : names[k] \notin DOMAIN tparams}
    IN IF absent = {}
         THEN targs.err = NoError /\ ~targs.isNil
       ELSE /\ targs.err =
                 MissingParameter(names[CHOOSE k \in absent :
                                          \A k2 \in absent : k <= k2])
            /\ targs.isNil
            /\ targs.args = <<>>

\* {a}{b}{a} with a null and b absent: a resolved, then b is reported
C4_Witness ==
  /\ Extracted
  /\ tq = <<"{", "a", "}", "{", "b", "}", "{", "a", "}">>
  /\ tparams = Map1(<<"a">>, Null)
  /\ targs.err = MissingParameter(<<"b">>)
  /\ targs.isNil

----------------------------------------------------------------------------
(* The adapter's calls, as the claims speak of them *)

Finished(name) == call.name = name /\ call.pc = "done"

WasConnected == call.pre.db # NilDB

InBulkInsert ==
  /\ Finished("Insert")
  /\ WasConnected
  /\ Len(call.objects0) >= 1
  /\ Len(call.op.Generated) = 0

InReturningInsert ==
  /\ call.name = "Insert"
  /\ WasConnected
  /\ Len(call.objects0) >= 1
  /\ Len(call.op.Generated) > 0

\* the values of a row object at the object-side fields of the mappings
RowValues(obj, mappings) ==
  [j \in 1..Len(mappings) |-> MapIndex(obj, mappings[j].ObjectField)]

\* the tuple ($first, ..., $last)
Tuple(first, last) ==
  <<"(">> \o Join([j \in 1..(last - first + 1) |->
                     <<"$">> \o Decimal(first + j - 1)], CommaSpace)
          \o <<")">>

InsertHead(op) ==
  InsertInto \o op.Statement \o <<" ", "(">>
    \o Join([j \in 1..Len(op.Properties) |-> op.Properties[j].DataField],
            CommaSpace)
    \o <<")">> \o ValuesWord

----------------------------------------------------------------------------
(* C5: a batch of R >= 1 rows and C mapped columns without generated       *)
(* columns is inserted by exactly one INSERT statement: the column list is *)
(* the data-side names in mapping order, the R tuples follow input order,  *)
(* the placeholder of row i, column j (from 0) is $(i*C + j + 1), and the  *)
(* argument vector has R*C entries, entry i*C + j being row i's value at   *)
(* the object-side field of mapping j.                                     *)
C5_BulkInsertOneStatement ==
  InBulkInsert =>
    LET R == Len(call.objects0)
        C == Len(call.op.Properties)
    IN /\ Len(call.issued) = 1
       /\ call.issued[1].kind = "exec"
       /\ call.issued[1].query =
            InsertHead(call.op)
              \o Join([i \in 1..R |-> Tuple((i - 1) * C + 1, i * C)],
                      CommaSpace)
       /\ MarkersOf(call.issued[1].query) = OneTo(R * C)
       /\ Len(call.issued[1].args) = R * C
       /\ \A i \in 0..(R - 1) : \A j \in 0..(C - 1) :
            call.issued[1].args[i * C + j + 1] =
              MapIndex(call.objects0[i + 1],
                       call.op.Properties[j + 1].ObjectField)

\* two rows of two columns went out as ($1, $2), ($3, $4)
C5_Witness ==
  /\ InBulkInsert
  /\ Len(call.objects0) = 2
  /\ Len(call.op.Properties) = 2
  /\ call.err = NoError
  /\ MarkersOf(call.issued[1].query) = <<1, 2, 3, 4>>

----------------------------------------------------------------------------
(* C6: with generated columns, Insert issues one INSERT ... RETURNING per  *)
(* row, never a batched statement, each with the placeholders $1..$C and   *)
(* the generated data-side names, in mapping order, as RETURNING list; once *)
(* a row's statement has succeeded the i-th returned value is in that row  *)
(* object under the object-side field of the i-th generated mapping.       *)
C6_ReturningPerRow ==
  InReturningInsert =>
    LET op == call.op
        C == Len(op.Properties)
    IN /\ Len(call.issued) <= Len(call.objects0)
       /\ (Finished("Insert") /\ call.err = NoError)
            => Len(call.issued) = Len(call.objects0)
       /\ \A k \in 1..Len(call.issued) :
            LET s == call.issued[k] IN
            /\ s.kind = "queryrow"
            /\ s.query =
                 InsertHead(op) \o Tuple(1, C) \o ReturningWord
                   \o Join([g \in 1..Len(op.Generated) |->
                              op.Generated[g].DataField], CommaSpace)
            /\ MarkersOf(s.query) = OneTo(C)
            /\ s.args = RowValues(call.objects0[k], op.Properties)
            /\ s.outcome.ok =>
                 \A g \in 1..Len(op.Generated) :
                   /\ op.Generated[g].ObjectField \in DOMAIN call.objects[k]
                   /\ call.objects[k][op.Generated[g].ObjectField] =
                        s.outcome.returned[g]

\* two rows, two generated columns, both statements succeeded
C6_Witness ==
  /\ InReturningInsert
  /\ Finished("Insert")
  /\ call.err = NoError
  /\ Len(call.op.Generated) = 2
  /\ Len(call.issued) = 2
  /\ call.objects[2][<<"g">>] = call.issued[2].outcome.returned[1]
  /\ call.objects[2][<<"h">>] = call.issued[2].outcome.returned[2]

----------------------------------------------------------------------------
\* row k holds what the write-back loop makes of the values returned for it
RowWrittenBack(k) ==
  call.objects[k] =
    WriteBack(call.objects0[k], call.op.Generated,
              call.issued[k].outcome.returned, 1)

(* C7: a returning insert handles its rows strictly in input order, row i  *)
(* executed and written back before row i+1 is executed; when the          *)
(* statement of row k fails, Insert returns an error, rows 1..k-1 stay     *)
(* inserted with their written-back values, row k and the later row        *)
(* objects are unmodified, nothing is issued for rows k+1..R and nothing   *)
(* is rolled back.                                                         *)
C7_SequentialNoRollback ==
  InReturningInsert =>
    LET n == Len(call.issued)
        failed == {k \in 1..n : ~call.issued[k].outcome.ok}
    IN /\ \A k \in 1..n :
            /\ call.issued[k].kind = "queryrow"
            /\ call.issued[k].args =
                 RowValues(call.objects0[k], call.op.Properties)
       \* only the last statement issued can be a failed one
       /\ \A k \in failed : k = n
       /\ \A k \in (1..n) \ failed : RowWrittenBack(k)
       /\ \A k \in failed \cup ((n + 1)..Len(call.objects0)) :
            call.objects[k] = call.objects0[k]
       /\ call.pc = "running" => (failed = {} /\ call.i = n + 1)
       /\ failed # {} =>
            (call.pc = "done" /\ call.err = Err("insert with returning failed"))
       /\ (call.pc = "done" /\ failed = {}) =>
            (call.err = NoError /\ n = Len(call.objects0))

\* the statement of row 2 of 3 failed: row 1 keeps its generated value, rows
\* 2 and 3 are as given and row 3 was never sent
C7_Witness ==
  /\ InReturningInsert
  /\ Finished("Insert")
  /\ Len(call.objects0) = 3
  /\ Len(call.issued) = 2
  /\ call.issued[1].outcome.ok
  /\ ~call.issued[2].outcome.ok
  /\ call.err # NoError
  /\ call.objects[1] # call.objects0[1]
  /\ call.objects[2] = call.objects0[2]
  /\ call.objects[3] = call.objects0[3]

----------------------------------------------------------------------------
(* C8: on an adapter on which Connect never succeeded, Fetch, Insert,      *)
(* Update, Delete and Execute each return an error without issuing a       *)
(* statement and without changing the adapter, whatever the arguments;     *)
(* Close returns no error and leaves the adapter not connected.            *)
Operations == {"Fetch", "Insert", "Update", "Delete", "Execute"}

C8_NotConnected ==
  /\ (call.name \in Operations /\ ~WasConnected)
       => /\ call.pc = "done"
          /\ call.err = ErrNotConnected
          /\ call.issued = <<>>
          /\ call.results = NilResults
          /\ call.objects = call.objects0
          /\ a = call.pre
  /\ (call.name = "Close" /\ ~WasConnected)
       => /\ call.pc = "done"
          /\ call.err = NoError
          /\ a = call.pre
          /\ a.db = NilDB

\* an Update of a batch of two on a fresh adapter came back not connected
C8_Witness ==
  /\ Finished("Update")
  /\ ~WasConnected
  /\ Len(call.objects0) = 2
  /\ call.err = ErrNotConnected

----------------------------------------------------------------------------
(* C9: on a connected adapter a Fetch whose query succeeds returns the     *)
(* not-found error exactly when the query yields no row and Multi is       *)
(* false; with Multi and no row it returns an empty result and no error,   *)
(* and with one or more rows one record per row, in cursor order,          *)
(* whatever Multi is.                                                      *)
C9_FetchNotFound ==
  (/\ Finished("Fetch")
   /\ Len(call.issued) = 1
   /\ call.issued[1].outcome.stage = "ok")
    => LET out == call.issued[1].outcome
           n == Len(out.rows)
       IN /\ call.err = ErrNotFound <=> (n = 0 /\ ~call.op.Multi)
          /\ call.err \in {ErrNotFound, NoError}
          /\ (n = 0 /\ call.op.Multi) => Len(call.results.rows) = 0
          /\ n >= 1 =>
               /\ Len(call.results.rows) = n
               /\ \A k \in 1..n :
                    \A c \in 1..Len(out.columns) :
                      call.results.rows[k][out.columns[c]] =
                        CursorRow(out.columns, out.rows[k])[c]

\* a multi-row Fetch that found nothing returned an empty result, no error
C9_Witness ==
  /\ Finished("Fetch")
  /\ Len(call.issued) = 1
  /\ call.issued[1].outcome.stage = "ok"
  /\ call.issued[1].outcome.rows = <<>>
  /\ call.op.Multi
  /\ call.err = NoError
  /\ Len(call.results.rows) = 0

----------------------------------------------------------------------------
\* the call's last statement ran and affected no row
AffectedNoRow ==
  /\ call.issued # <<>>
  /\ call.issued[Len(call.issued)].outcome.stage = "ok"
  /\ call.issued[Len(call.issued)].outcome.rowsAffected = 0

(* C10: on a connected adapter Update and Delete return the not-found      *)
(* error exactly when a statement affects no row and the operation's Multi *)
(* flag is false; with Multi a statement that affects no row is not        *)
(* reported as not found.                                                  *)
C10_NotFoundUnlessMulti ==
  ((Finished("Update") \/ Finished("Delete")) /\ WasConnected)
    => (call.err = ErrNotFound <=> (AffectedNoRow /\ ~call.op.Multi))

\* C10 without the Multi flag, as Update and Delete are written
C10_NotFoundWhateverMulti ==
  ((Finished("Update") \/ Finished("Delete")) /\ WasConnected)
    => (call.err = ErrNotFound <=> AffectedNoRow)

----------------------------------------------------------------------------
\* an Insert of no row object has returned
EmptyInsert == Finished("Insert") /\ Len(call.objects0) = 0

(* C11: Insert with an empty batch of row objects issues no statement and  *)
(* returns no error, whether or not the operation declares generated       *)
(* columns.                                                                *)
C11_EmptyBatchNoError ==
  EmptyInsert => (call.issued = <<>> /\ call.err = NoError)

(* C11 as amended: on an adapter whose handle is set, Insert with an empty *)
(* batch issues no statement and returns no error, with or without         *)
(* generated columns and whether or not the pool was closed since; on an   *)
(* adapter that never connected it issues no statement and returns the     *)
(* not-connected error.                                                    *)
C11_EmptyBatchConnected ==
  EmptyInsert =>
    /\ call.issued = <<>>
    /\ call.objects = <<>>
    /\ a = call.pre
    /\ call.err = IF WasConnected THEN NoError ELSE ErrNotConnected

\* an empty batch for an operation with generated columns, on a connected
\* adapter, came back with no error and nothing issued
C11_Witness ==
  /\ EmptyInsert
  /\ WasConnected
  /\ Len(call.op.Generated) > 0
  /\ call.issued = <<>>
  /\ call.err = NoError

----------------------------------------------------------------------------
\* the "{" that no "}" follows before the end of the template
Unterminated(t) ==
  {i \in Opens(t) : \A j \in (i + 1)..Len(t) : t[j] # "}"}

\* the template up to its first unterminated "{", that brace left out
BeforeUnterminated(t) ==
  SubSeq(t, 1, (CHOOSE i \in Unterminated(t) :
                  \A i2 \in Unterminated(t) : i <= i2) - 1)

(* C12: for a template with a "{" that no "}" follows, extractArgs gives   *)
(* no entry for that fragment, looks up nothing for it and returns no      *)
(* error because of it: the vector is the one of the closed placeholders   *)
(* before it, in order, and an error can only name one of their names.     *)
C12_UnterminatedAbsorbed ==
  (Extracted /\ Unterminated(tq) # {}) =>
    LET names == LookedUpNames(BeforeUnterminated(tq))
    IN IF Covers(tparams, names)
         THEN /\ targs.err = NoError
              /\ ~targs.isNil
              /\ targs.args = [k \in 1..Len(names) |-> tparams[names[k]]]
       ELSE /\ targs.isNil
            /\ \E k \in 1..Len(names) :
                 /\ names[k] \notin DOMAIN tparams
                 /\ targs.err = MissingParameter(names[k])

\* {a}{b with only a in the map: the value of a, and no error for b
C12_Witness ==
  /\ Extracted
  /\ tq = <<"{", "a", "}", "{", "b">>
  /\ tparams = Map1(<<"a">>, "v1")
  /\ targs.err = NoError
  /\ targs.args = <<"v1">>

----------------------------------------------------------------------------
\* position p lies after a "{" with no "}" in between: the scan is inside a
\* brace there, whatever "{" came in between
InsideBrace(t, p) ==
  \E i \in Opens(t) : i < p /\ \A k \in (i + 1)..(p - 1) : t[k] # "}"

\* a marker for every "{", counted from 1, and the characters outside braces
RECURSIVE MarkerPerOpen(_, _)
MarkerPerOpen(t, p) ==
  IF p > Len(t) THEN <<>>
  ELSE IF t[p] = "{"
    THEN <<Marker(Cardinality({i \in Opens(t) : i <= p}))>>
           \o MarkerPerOpen(t, p + 1)
  ELSE IF InsideBrace(t, p) THEN MarkerPerOpen(t, p + 1)
  ELSE <<Literal(t[p])>> \o MarkerPerOpen(t, p + 1)

(* C16: replaceNamedParams emits one marker for every "{" of the template, *)
(* closed or not, inside an open placeholder or not, and extractArgs one   *)
(* entry for each "}" that closes an open brace, named by the text after   *)
(* the most recent "{"; for a template ending in an unterminated "{" the   *)
(* statement holds a marker for it and none of the text after it.          *)
C16_MarkerPerOpenBrace ==
  /\ Translated =>
       /\ Len(MarkersOf(tstmt)) = Cardinality(Opens(tq))
       /\ ParseStatement(tstmt, 1) = MarkerPerOpen(tq, 1)
       /\ Unterminated(tq) # {} =>
            LET items == ParseStatement(tstmt, 1)
                before == BeforeUnterminated(tq)
                rest == Cardinality(Unterminated(tq))
            IN \* from the first unterminated "{" on, markers only
               items = MarkerPerOpen(before, 1)
                         \o [k \in 1..rest |->
                              Marker(Cardinality(Opens(before)) + k)]
  /\ (Extracted /\ Covers(tparams, LookedUpNames(tq))) =>
       /\ Len(targs.args) = Cardinality(Closers(tq))
       /\ targs.args =
            [k \in 1..Cardinality(Closers(tq)) |->
               tparams[LookedUpNames(tq)[k]]]

\* {{a}{ gave $1$2$3 and the one value of a
C16_Witness ==
  /\ Extracted
  /\ Translated
  /\ tq = <<"{", "{", "a", "}", "{">>
  /\ tparams = Map1(<<"a">>, "v1")
  /\ tstmt = <<"$", "1", "$", "2", "$", "3">>
  /\ targs.args = <<"v1">>

(* C17: for every well-formed template and every parameter map covering   *)
(* its names the statement and the vector are consistent: as many markers  *)
(* as values, the markers $1..$n in order, and the value at position i is  *)
(* the map's value of the name in the i-th placeholder.                    *)
C17_WellFormedConsistent ==
  (/\ Extracted
   /\ Translated
   /\ WellFormed(tq)
   /\ Covers(tparams, OccurrenceNames(tq)))
    => LET n == Len(targs.args)
           marks == MarkersOf(tstmt)
       IN /\ targs.err = NoError
          /\ Len(marks) = n
          /\ \A i \in 1..n :
               /\ marks[i] = i
               /\ targs.args[i] = tparams[OccurrenceNames(tq)[i]]

\* a ={a} b={b} became a =$1 b=$2 with the values of a and b
C17_Witness ==
  /\ Extracted
  /\ Translated
  /\ tq = <<"a", " ", "=", "{", "a", "}", " ", "b", "=", "{", "b", "}">>
  /\ tparams = Map2(<<"a">>, "v1", <<"b">>, "v2")
  /\ tstmt = <<"a", " ", "=", "$", "1", " ", "b", "=", "$", "2">>
  /\ targs.args = <<"v1", "v2">>

----------------------------------------------------------------------------
\* an Update or a Delete of one object or more that reached its loop
InExecLoop ==
  /\ call.name \in {"Update", "Delete"}
  /\ WasConnected
  /\ Len(call.objects0) >= 1

\* the parameters of the k-th object or identifier
ParamsOfRow(k) ==
  IF call.name = "Update" THEN call.objects0[k]
  ELSE IF call.objects0[k].isMap THEN call.objects0[k].map
  ELSE Map1(<<"i", "d">>, call.objects0[k].val)

\* positions of the names the statement needs that row k does not hold
AbsentOfRow(k) ==
  LET names == LookedUpNames(call.op.Statement)
  IN {j \in 1..Len(names) : names[j] \notin DOMAIN ParamsOfRow(k)}

\* the statement did not succeed on a row
StatementFailed(s) == s.outcome.stage # "ok" \/ s.outcome.rowsAffected = 0

ErrorOf(s) ==
  IF s.outcome.stage = "exec error"
    THEN Err(IF call.name = "Update" THEN "update failed"
             ELSE "delete failed")
  ELSE IF s.outcome.stage = "rows affected error"
    THEN Err("failed to get rows affected")
  ELSE ErrNotFound

(* C15: Update and Delete take their objects in input order, execute each  *)
(* object's statement at most once and stop at the first failure (missing  *)
(* parameter, execution error, no row affected), returning that error: the *)
(* statements of the objects before it were executed and stay so, none is  *)
(* issued for an object after it, and none for the failing object itself   *)
(* when a parameter is missing.                                            *)
C15_StopAtFirstFailure ==
  InExecLoop =>
    LET n == Len(call.issued)
        R == Len(call.objects0)
        names == LookedUpNames(call.op.Statement)
    IN /\ n <= R
       \* the k-th statement issued is the one of the k-th object
       /\ \A k \in 1..n :
            /\ call.issued[k].kind = "exec"
            /\ AbsentOfRow(k) = {}
            /\ call.issued[k].args =
                 [j \in 1..Len(names) |-> ParamsOfRow(k)[names[j]]]
            /\ StatementFailed(call.issued[k]) => (k = n /\ call.pc = "done")
       /\ call.pc = "running" => (call.i = n + 1 /\ n < R)
       /\ call.pc = "done" =>
            IF n >= 1 /\ StatementFailed(call.issued[n])
              THEN call.err = ErrorOf(call.issued[n])
            ELSE IF n < R
              THEN /\ AbsentOfRow(n + 1) # {}
                   /\ call.err =
                        MissingParameter(
                          names[CHOOSE j \in AbsentOfRow(n + 1) :
                                  \A j2 \in AbsentOfRow(n + 1) : j <= j2])
            ELSE call.err = NoError

\* an Update of three objects: the first updated, the second lacks a
\* parameter, so one statement only was issued
C15_Witness ==
  /\ InExecLoop
  /\ Finished("Update")
  /\ Len(call.objects0) = 3
  /\ Len(call.issued) = 1
  /\ call.issued[1].outcome.stage = "ok"
  /\ call.issued[1].outcome.rowsAffected = 1
  /\ call.err.kind = "missing parameter"

----------------------------------------------------------------------------
\* the object-side fields the generated mappings of the call name
GeneratedFields ==
  {call.op.Generated[g].ObjectField : g \in 1..Len(call.op.Generated)}

\* two row objects agree on every field outside the set F
SameOutside(obj1, obj2, F) ==
  /\ DOMAIN obj1 \ F = DOMAIN obj2 \ F
  /\ \A f \in DOMAIN obj1 \ F : obj1[f] = obj2[f]

\* a mapped field the row object lacks went out as a null argument
AbsentBoundAsNull(obj, args, first) ==
  \A j \in 1..Len(call.op.Properties) :
    call.op.Properties[j].ObjectField \notin DOMAIN obj
      => args[first + j - 1] = Null

(* C20: Insert changes the caller's row objects only by the write-back of  *)
(* generated columns: a bulk insert leaves every row object unchanged, a   *)
(* returning insert changes in each row inserted only the object-side      *)
(* fields of the generated mappings, and a mapped object-side field that a *)
(* row object lacks is bound as a null argument, not reported as an error, *)
(* and the row object stays without it.                                    *)
C20_OnlyWriteBack ==
  /\ InBulkInsert =>
       /\ call.objects = call.objects0
       /\ \A k \in 1..Len(call.objects0) :
            AbsentBoundAsNull(call.objects0[k], call.issued[1].args,
                              (k - 1) * Len(call.op.Properties) + 1)
       /\ call.err # NoError => call.issued[1].outcome.stage # "ok"
  /\ InReturningInsert =>
       /\ Len(call.objects) = Len(call.objects0)
       /\ \A k \in 1..Len(call.objects0) :
            /\ SameOutside(call.objects[k], call.objects0[k], GeneratedFields)
            /\ DOMAIN call.objects0[k] \subseteq DOMAIN call.objects[k]
            /\ (k > Len(call.issued) \/ ~call.issued[k].outcome.ok)
                 => call.objects[k] = call.objects0[k]
       /\ \A k \in 1..Len(call.issued) :
            AbsentBoundAsNull(call.objects0[k], call.issued[k].args, 1)
       /\ call.err # NoError
            => ~call.issued[Len(call.issued)].outcome.ok

\* a row {a: v2} inserted for the columns of a and b with one generated
\* column: b went out as null, the row got g and still has no b
C20_Witness ==
  /\ InReturningInsert
  /\ Finished("Insert")
  /\ call.err = NoError
  /\ call.objects0[1] = Map1(<<"a">>, "v2")
  /\ Len(call.op.Properties) = 2
  /\ call.issued[1].args = <<"v2", Null>>
  /\ DOMAIN call.objects[1] = {<<"a">>, <<"g">>}

----------------------------------------------------------------------------
(* Connect and Close, as the claims speak of them *)

\* the handles of the pools that are open
OpenPools == {p \in 1..Len(pools) : pools[p].open}

ConnectSucceeded == Finished("Connect") /\ call.err = NoError

\* the adapter held the pooling defaults of a new adapter when the call began
HeldDefaults ==
  /\ call.pre.maxConn = DefaultMaxConn
  /\ call.pre.maxIdle = DefaultMaxIdle
  /\ call.pre.connMaxAge = DefaultConnMaxAge

\* the integer given for an option in the config, or the default
Option(config, key, default) ==
  IF key \in DOMAIN config /\ config[key].type = "int"
    THEN config[key].v ELSE default

(* C13: after a successful Connect the pool is configured with all three   *)
(* pooling options: maximum open connections = max_connections (default    *)
(* 10), maximum idle connections = max_idle (default 5), connection        *)
(* maximum lifetime = conn_max_age_seconds (default 3600), an option given *)
(* in the config overriding the default of a new adapter.                  *)
C13_PoolConfigured ==
  (ConnectSucceeded /\ HeldDefaults) =>
    LET config == call.params
        pool == pools[a.db]
    IN /\ pool.maxOpen = Option(config, "max_connections", DefaultMaxConn)
       /\ pool.maxIdle = Option(config, "max_idle", DefaultMaxIdle)
       /\ pool.maxLifetime =
            Option(config, "conn_max_age_seconds", DefaultConnMaxAge)

\* C13 without the lifetime: the two limits the code sets on the pool, and
\* the age it keeps in the adapter only
C13_OpenAndIdleConfigured ==
  (ConnectSucceeded /\ HeldDefaults) =>
    LET config == call.params
        pool == pools[a.db]
    IN /\ pool.maxOpen = Option(config, "max_connections", DefaultMaxConn)
       /\ pool.maxIdle = Option(config, "max_idle", DefaultMaxIdle)
       /\ a.connMaxAge =
            Option(config, "conn_max_age_seconds", DefaultConnMaxAge)
       /\ pool.maxLifetime = 0

(* C18: at every point at most one pool opened by the adapter is open,     *)
(* also when Connect is called again on a connected adapter, and after a   *)
(* Close no pool opened by the adapter is open.                            *)
C18_AtMostOnePoolOpen ==
  /\ Cardinality(OpenPools) <= 1
  /\ Finished("Close") => OpenPools = {}

\* a call of Connect returns an error in this step
ConnectFails ==
  /\ call.pc = "idle"
  /\ call'.name = "Connect"
  /\ call'.pc = "done"
  /\ call'.issued[1].outcome # "ok"

\* an operation is called in this step on an adapter with no handle
CalledNotConnected ==
  /\ call.pc = "idle"
  /\ call'.name \in Operations
  /\ a.db = NilDB

(* C19: a Connect that fails, at opening the pool or at the ping, returns  *)
(* an error, leaves no pool open from that attempt and leaves the          *)
(* adapter's handle as it was: an adapter that was not connected stays not *)
(* connected and its operations keep failing with the not-connected error. *)
C19_FailedConnectKeepsHandle ==
  [][/\ ConnectFails =>
          /\ call'.err # NoError
          /\ a'.db = a.db
          /\ OpenPools' = OpenPools
          /\ call'.issued[1].pool # NilDB
               => ~pools'[call'.issued[1].pool].open
     /\ CalledNotConnected =>
          /\ call'.pc = "done"
          /\ call'.err = ErrNotConnected
          /\ call'.issued = <<>>
          /\ a' = a]_vars

\* the ping of the first Connect failed and a Fetch then came back not
\* connected: the one pool opened is closed, the handle is nil
C19_Witness ==
  /\ Finished("Fetch")
  /\ call.err = ErrNotConnected
  /\ a.db = NilDB
  /\ Len(pools) = 1
  /\ ~pools[1].open

----------------------------------------------------------------------------
\* caller p has the result of its call
HasResult(p) == procs[p].pc = "done"

(* C14: extractArgs and replaceNamedParams are pure: they read only their  *)
(* arguments, never change the template or the parameter map and keep no   *)
(* state between calls, so in any interleaving of concurrent calls every   *)
(* call returns what it returns when run alone.                            *)
C14_PureUnderInterleaving ==
  /\ [](\A p \in Callers :
          HasResult(p) =>
            IF procs[p].fn = "extractArgs"
              THEN procs[p].args = extractArgs(tq, tparams)
            ELSE procs[p].result = replaceNamedParams(tq))
  /\ [][tq' = tq /\ tparams' = tparams]_vars

\* {a}: caller 1 has its vector while caller 2 is inside the placeholder, in
\* its own scan
C14_Witness ==
  /\ tq = <<"{", "a", "}">>
  /\ tparams = Map1(<<"a">>, "v1")
  /\ HasResult(1)
  /\ procs[1].fn = "extractArgs"
  /\ procs[1].args.args = <<"v1">>
  /\ procs[2].fn = "extractArgs"
  /\ procs[2].pc = "scan"
  /\ procs[2].i = 3
  /\ procs[2].paramName = <<"a">>

====
